---------------------------- MODULE Spec2Model ----------------------------
(***************************************************************************)
(* A model of the label-layout engine of dsv-map                           *)
(* (src/create_tv_16x9_with_qr.py): the point spreader                     *)
(* spread_overlapping_employees and the label placer try_placement.        *)
(*                                                                         *)
(* Arithmetic.  The program computes in IEEE doubles; the model computes   *)
(* in integers.  Canvas coordinates are whole pixels: a polar offset       *)
(* dist * cos(angle) is truncated to a pixel.  The spreader's coordinates  *)
(* are hundredths of a floor-plan pixel and its forces are ten-thousandths *)
(* (fixed point, truncating).                                              *)
(***************************************************************************)
EXTENDS Integers, Sequences, FiniteSets, TLC

VARIABLES
    employees,       \* the input records that have coordinates, in list order
    employee_order,  \* try_placement's employee_order: indices into employees
    angle_prefs,     \* try_placement's angle_prefs
    occupied_rects,  \* try_placement's occupied_rects
    label_data,      \* try_placement's label_data
    score,           \* try_placement's score
    pos,             \* number of requests of employee_order already handled
    pc,              \* "idle" | "placing" | "returned"
    placement_log,   \* history: per label, the tier, the tested and the recorded rectangles
    coords_list,     \* spreader: the working copy of the points
    start_coords,    \* spreader: the points as they were given
    iteration,       \* spreader: the round counter of `for iteration in range(...)`
    idx,             \* spreader: the position of the inner `for i, ... in enumerate`
    moved,           \* spreader: the round's moved flag
    spread_pc,       \* "off" | "round" | "converged" | "exhausted"
    round_start,     \* history: the working copy as it was when the round began
    attempt,         \* main: the attempt counter of the configuration search
    best_score,      \* main: best_score
    best_label_data, \* main: best_label_data
    best_config,     \* main: best_config, <<sort name, first angle>>; <<>> is None
    main_label_data, \* main: the label_data that is drawn
    trial_log,       \* history: per call of try_placement, its arguments and results
    search_pc,       \* "off" | "searching" | "final" | "done"
    slides,          \* CI slide manager: the server's slides, by slide id
    state_file,      \* CI slide manager: STATE_FILE, <<>> when it does not exist
    ci_log           \* history: the commands run, with exit code and slide ids

placer_vars == <<employees, employee_order, angle_prefs, occupied_rects,
                 label_data, score, pos, pc, placement_log>>
spreader_vars == <<coords_list, start_coords, iteration, idx, moved, spread_pc,
                   round_start>>
search_vars == <<attempt, best_score, best_label_data, best_config,
                 main_label_data, trial_log, search_pc>>
vars == <<employees, employee_order, angle_prefs, occupied_rects, label_data,
          score, pos, pc, placement_log, coords_list, start_coords, iteration,
          idx, moved, spread_pc, round_start, attempt, best_score, best_label_data,
          best_config, main_label_data, trial_log, search_pc, slides,
          state_file, ci_log>>
ci_vars == <<slides, state_file, ci_log>>

-----------------------------------------------------------------------------
(* Integer helpers *)

Abs(n) == IF n < 0 THEN -n ELSE n

Max2(a, b) == IF a > b THEN a ELSE b

Min2(a, b) == IF a < b THEN a ELSE b

\* division truncating toward zero, as a float product is folded to a pixel
TruncDiv(a, b) == IF a >= 0 THEN a \div b ELSE -((-a) \div b)

MinOfSet(S) == CHOOSE m \in S : \A o \in S : m <= o

-----------------------------------------------------------------------------
(* Canvas geometry: main(), lines 179-194 *)

target_width == 3840
target_height == 2160
side_panel_width == 800
map_area_width == target_width - side_panel_width
img_width == 3056
img_height == 3056

\* scale = min(map_area_width / img_width, map_area_height / img_height) * 0.85,
\* kept as the fraction ScaleNum / ScaleDen
ScaleNum ==
    IF map_area_width * img_height <= target_height * img_width
    THEN map_area_width * 85 ELSE target_height * 85
ScaleDen ==
    IF map_area_width * img_height <= target_height * img_width
    THEN img_width * 100 ELSE img_height * 100

\* int(v * scale)
Scaled(v) == (v * ScaleNum) \div ScaleDen

new_map_width == Scaled(img_width)
new_map_height == Scaled(img_height)
map_offset_x == (map_area_width - new_map_width) \div 2
map_offset_y == (target_height - new_map_height) \div 2

x_canvas(e) == map_offset_x + Scaled(e.x)
y_canvas(e) == map_offset_y + Scaled(e.y)

-----------------------------------------------------------------------------
(* Collision primitives *)

\* rectangles are <<left, top, right, bottom>>
rectangles_overlap(r1, r2, margin) ==
    ~ (  r1[3] + margin < r2[1]
      \/ r1[1] - margin > r2[3]
      \/ r1[4] + margin < r2[2]
      \/ r1[2] - margin > r2[4])

\* count_nearby(x, y, employee_coords): the points at a distance d of (x, y)
\* with 0 < d < 300; on integers sqrt(s) < 300 is s < 300 * 300
count_nearby(x, y, coords) ==
    Cardinality({i \in DOMAIN coords :
        LET s == (coords[i].x - x) * (coords[i].x - x)
               + (coords[i].y - y) * (coords[i].y - y)
        IN  s > 0 /\ s < 300 * 300})

density(i) == count_nearby(employees[i].x, employees[i].y, employees)

pic_rect(e) ==
    <<x_canvas(e) - 48, y_canvas(e) - 48, x_canvas(e) + 48, y_canvas(e) + 48>>

\* a seeding that reserves the first picture only
base_occupied_rects_first_only ==
    [i \in {j \in DOMAIN employees : j = 1} |-> pic_rect(employees[i])]

\* the reserved rectangle of every profile picture, in list order
base_occupied_rects == [i \in DOMAIN employees |-> pic_rect(employees[i])]

-----------------------------------------------------------------------------
(* The search configurations of main() *)

angle_configs ==
    << <<315, 45, 270, 225, 0, 135, 90, 180>>,
       <<225, 315, 180, 270, 135, 45, 90, 0>>,
       <<180, 225, 135, 270, 90, 315, 45, 0>>,
       <<270, 225, 315, 180, 0, 135, 45, 90>>,
       <<45, 315, 0, 90, 270, 135, 225, 180>> >>

sort_names ==
    <<"density_desc", "density_asc", "left_to_right", "right_to_left",
      "top_to_bottom">>

\* a budget without the cap
num_attempts_uncapped == Len(angle_configs) * Len(sort_names)

\* `min(len(angle_configs) * len(sort_configs), 15)`
num_attempts == Min2(Len(angle_configs) * Len(sort_names), 15)

\* the search loop is angle-list-major and stops after num_attempts trials:
\* the sort configuration s is tried with the angle list a when the pair
\* comes among the first num_attempts
tried(a, s) == (a - 1) * Len(sort_names) + s <= num_attempts

\* the sort key of employees_with_info entry i under a sort configuration
sort_key(name, i) ==
    LET d == density(i)
        xc == x_canvas(employees[i])
        yc == y_canvas(employees[i])
    IN  CASE name = "density_desc"  -> <<-d, xc, yc>>
          [] name = "density_asc"   -> <<d, xc, yc>>
          [] name = "left_to_right" -> <<xc, yc>>
          [] name = "right_to_left" -> <<-xc, yc>>
          [] name = "top_to_bottom" -> <<yc, xc>>

\* tuple comparison, as Python compares key tuples of equal length
TupleLess(a, b) ==
    \E p \in DOMAIN a :
        /\ a[p] < b[p]
        /\ \A q \in 1..(p - 1) : a[q] = b[q]

\* sorted(employees_with_info, key=...): a stable sort, so an entry goes
\* after the entries with a smaller key and the earlier entries with its key
sorted_employees(name) ==
    LET n == Len(employees)
        rank(i) == Cardinality({j \in 1..n :
                       \/ TupleLess(sort_key(name, j), sort_key(name, i))
                       \/ (sort_key(name, j) = sort_key(name, i) /\ j < i)})
    IN  [p \in 1..n |-> CHOOSE i \in 1..n : rank(i) = p - 1]

-----------------------------------------------------------------------------
(* try_placement: the label box of one request *)

padding_box == 15

label_width(e) == Max2(e.name_width, e.room_width) + (padding_box * 2)

label_height(e) ==
    (padding_box + e.name_height + padding_box) + 10
    + (padding_box + e.room_height + padding_box)

\* the padded rectangle that is tested against occupied_rects
label_rect(e, lx, ly) ==
    <<lx - padding_box, ly - padding_box,
      lx + label_width(e) + padding_box, ly + label_height(e) + padding_box>>

\* a name box padded twice on the right
name_box_rect_wide(e, lx, ly) ==
    <<lx - padding_box, ly - padding_box,
      lx + e.name_width + (padding_box * 4), ly + e.name_height + padding_box>>

name_box_rect(e, lx, ly) ==
    <<lx - padding_box, ly - padding_box,
      lx + e.name_width + padding_box, ly + e.name_height + padding_box>>

room_y_pos(e, ly) == ly + e.name_height + padding_box + 10

\* a room box that reaches six paddings below the room text
room_box_rect_tall(e, lx, ly) ==
    <<lx - padding_box, room_y_pos(e, ly) - padding_box,
      lx + e.room_width + padding_box,
      room_y_pos(e, ly) + e.room_height + (padding_box * 6)>>

room_box_rect(e, lx, ly) ==
    <<lx - padding_box, room_y_pos(e, ly) - padding_box,
      lx + e.room_width + padding_box,
      room_y_pos(e, ly) + e.room_height + padding_box>>

\* the bounds test of the radial and elbow tiers
in_bounds(e, lx, ly) ==
    /\ lx - padding_box >= 50
    /\ lx + label_width(e) + padding_box <= map_area_width - 50
    /\ ly - padding_box >= 50
    /\ ly + label_height(e) + padding_box <= target_height - 50

elbow_in_bounds(ex, ey) ==
    /\ ex >= 50
    /\ ex <= map_area_width - 50
    /\ ey >= 50
    /\ ey <= target_height - 50

\* `for occupied in occupied_rects: if rectangles_overlap(...)`
collision(rect, occ, margin) ==
    \E o \in DOMAIN occ : rectangles_overlap(rect, occ[o], margin)

-----------------------------------------------------------------------------
(* try_placement: the candidates of the seven tiers *)

\* math.cos / math.sin of a multiple of 45 degrees, in ten-thousandths
Cos10k(angle_deg) ==
    CASE angle_deg = 0 -> 10000
      [] angle_deg \in {45, 315} -> 7071
      [] angle_deg \in {90, 270} -> 0
      [] angle_deg \in {135, 225} -> -7071
      [] angle_deg = 180 -> -10000

Sin10k(angle_deg) ==
    CASE angle_deg \in {0, 180} -> 0
      [] angle_deg \in {45, 135} -> 7071
      [] angle_deg = 90 -> 10000
      [] angle_deg \in {225, 315} -> -7071
      [] angle_deg = 270 -> -10000

\* label_x = x_canvas + dist * cos(angle), label_y = y_canvas + dist * sin(angle)
polar_candidate(e, dist, angle_deg) ==
    [label_x |-> x_canvas(e) + TruncDiv(dist * Cos10k(angle_deg), 10000),
     label_y |-> y_canvas(e) + TruncDiv(dist * Sin10k(angle_deg), 10000),
     elbow |-> <<>>]

\* an enumeration that tries every radius of an angle before the next angle
radial_candidates_angle_major(e, dists, angles) ==
    [c \in 1..(Len(dists) * Len(angles)) |->
        polar_candidate(e, dists[((c - 1) % Len(dists)) + 1],
                           angles[((c - 1) \div Len(dists)) + 1])]

\* `for dist in dists: for angle_deg in angles`: radius-major
radial_candidates(e, dists, angles) ==
    [c \in 1..(Len(dists) * Len(angles)) |->
        polar_candidate(e, dists[((c - 1) \div Len(angles)) + 1],
                           angles[((c - 1) % Len(angles)) + 1])]

\* radius ladders tried from the largest radius down
distances_to_try_descending(d) ==
    IF d >= 5 THEN <<800, 700, 600, 500, 400, 300>>
    ELSE IF d >= 3 THEN <<650, 550, 450, 350, 250>>
    ELSE <<500, 400, 320, 250, 180>>

distances_to_try(d) ==
    IF d >= 5 THEN <<300, 400, 500, 600, 700, 800>>
    ELSE IF d >= 3 THEN <<250, 350, 450, 550, 650>>
    ELSE <<180, 250, 320, 400, 500>>

collision_margin(d) == IF d >= 5 THEN 40 ELSE (IF d >= 3 THEN 30 ELSE 20)

extended_distances == <<600, 700, 800, 900, 1000>>

\* routes are <<elbow_dx, elbow_dy, label_dx, label_dy>>
elbow_routes ==
    << <<0, -150, -300, -150>>, <<0, -200, -400, -200>>, <<0, -200, -600, -200>>,
       <<0, -200, -800, -200>>, <<0, -200, -1000, -200>>, <<0, -300, -500, -300>>,
       <<0, -300, -700, -300>>, <<0, -300, -900, -300>>, <<0, -400, -600, -400>>,
       <<0, -400, -800, -400>>, <<0, -400, -1000, -400>>, <<0, 150, -300, 150>>,
       <<0, 200, -400, 200>>, <<0, 200, -600, 200>>, <<0, 200, -800, 200>>,
       <<0, 200, -1000, 200>>, <<0, 300, -500, 300>>, <<0, 300, -700, 300>>,
       <<0, 300, -900, 300>>, <<0, 400, -600, 400>>, <<0, 400, -800, 400>>,
       <<0, 400, -1000, 400>>, <<0, -200, 400, -200>>, <<0, -200, 600, -200>>,
       <<0, 200, 400, 200>>, <<0, 200, 600, 200>>, <<-200, 0, -400, -200>>,
       <<-200, 0, -400, 200>>, <<-300, 0, -500, -250>>, <<-300, 0, -500, 250>>,
       <<-400, 0, -600, -300>>, <<-400, 0, -600, 300>>, <<-500, 0, -700, -350>>,
       <<-500, 0, -700, 350>>, <<300, 0, 300, -250>>, <<300, 0, 300, 250>> >>

exhaustive_distances == <<200, 300, 400, 500, 600, 700, 800>>

exhaustive_angles == <<180, 225, 135, 270, 90, 315, 45, 0>>

extreme_routes ==
    << <<0, -300, -1200, -500>>, <<0, -400, -1000, -600>>, <<0, -500, -800, -700>>,
       <<0, 300, -1200, 500>>, <<0, 400, -1000, 600>>, <<0, 500, -800, 700>>,
       <<-200, 0, -1000, -100>>, <<-200, 0, -1000, 100>>,
       <<-300, 0, -1200, -150>>, <<-300, 0, -1200, 150>> >>

route_candidates(e, routes) ==
    [c \in DOMAIN routes |->
        [label_x |-> x_canvas(e) + routes[c][3],
         label_y |-> y_canvas(e) + routes[c][4],
         elbow |-> <<x_canvas(e) + routes[c][1], y_canvas(e) + routes[c][2]>>]]

\* len(range(start, stop, step))
RangeLen(start, stop, step) ==
    IF stop <= start THEN 0 ELSE (stop - start + step - 1) \div step

\* `for scan_y in range(100, target_height - 200, 80):
\*      for scan_x in range(100, map_area_width // 3, 80)`
grid_candidates(e) ==
    LET cols == RangeLen(100, map_area_width \div 3, 80)
        rows == RangeLen(100, target_height - 200, 80)
    IN  [c \in 1..(rows * cols) |->
            LET scan_x == 100 + 80 * ((c - 1) % cols)
                scan_y == 100 + 80 * ((c - 1) \div cols)
            IN  [label_x |-> scan_x,
                 label_y |-> scan_y,
                 elbow |-> <<x_canvas(e),
                             IF scan_y < y_canvas(e) THEN scan_y + 100
                                                     ELSE scan_y - 100>>]]

\* Tiers: 1 direct, 2 extended, 3 elbow, 4 exhaustive angular,
\*        5 extreme elbow, 6 grid scan, 7 forced
tier_candidates(t, i, angles) ==
    LET e == employees[i] IN
    CASE t = 1 -> radial_candidates(e, distances_to_try(density(i)), angles)
      [] t = 2 -> radial_candidates(e, extended_distances, angles)
      [] t = 3 -> route_candidates(e, elbow_routes)
      [] t = 4 -> radial_candidates(e, exhaustive_distances, exhaustive_angles)
      [] t = 5 -> route_candidates(e, extreme_routes)
      [] t = 6 -> grid_candidates(e)

\* margins of the collision tests, all halved
tier_margin_halved(t, i) ==
    CASE t = 1 -> collision_margin(density(i)) \div 2
      [] t = 2 -> 10
      [] t = 3 -> 7
      [] t = 4 -> 5
      [] t = 5 -> 2
      [] t = 6 -> 2

tier_margin(t, i) ==
    CASE t = 1 -> collision_margin(density(i))
      [] t = 2 -> 20
      [] t = 3 -> 15
      [] t = 4 -> 10
      [] t = 5 -> 5
      [] t = 6 -> 5

\* a bounds rule that only the radial tiers apply
tier_bounds_radial_only(t, e, c) ==
    CASE t \in {1, 2, 4} -> in_bounds(e, c.label_x, c.label_y)
      [] t \in {3, 5, 6} -> TRUE

\* the bounds rule of a tier: the grid scan tests none
tier_bounds(t, e, c) ==
    CASE t \in {1, 2, 4} -> in_bounds(e, c.label_x, c.label_y)
      [] t \in {3, 5} -> /\ in_bounds(e, c.label_x, c.label_y)
                         /\ elbow_in_bounds(c.elbow[1], c.elbow[2])
      [] t = 6 -> TRUE

accepted(t, i, c, occ) ==
    /\ tier_bounds(t, employees[i], c)
    /\ ~ collision(label_rect(employees[i], c.label_x, c.label_y), occ,
                   tier_margin(t, i))

\* the position of the first accepted candidate of tier t, 0 when there is none
first_accepted(t, i, occ, angles) ==
    LET cands == tier_candidates(t, i, angles)
        ok == {c \in DOMAIN cands : accepted(t, i, cands[c], occ)}
    IN  IF ok = {} THEN 0 ELSE MinOfSet(ok)

\* a commit that forgets the room box of the direct, extended and elbow tiers
recorded_rects_name_only(t, e, lx, ly) ==
    CASE t \in {1, 2, 3} -> <<name_box_rect(e, lx, ly)>>
      [] t \in {4, 5, 6} -> <<label_rect(e, lx, ly)>>
      [] t = 7 -> <<>>

\* a commit in which the exhaustive angular tier records the two boxes
recorded_rects_boxes_in_exhaustive(t, e, lx, ly) ==
    CASE t \in {1, 2, 3, 4} -> <<name_box_rect(e, lx, ly), room_box_rect(e, lx, ly)>>
      [] t \in {5, 6} -> <<label_rect(e, lx, ly)>>
      [] t = 7 -> <<>>

\* what a tier appends to occupied_rects for the label it commits
recorded_rects(t, e, lx, ly) ==
    CASE t \in {1, 2, 3} -> <<name_box_rect(e, lx, ly), room_box_rect(e, lx, ly)>>
      [] t \in {4, 5, 6} -> <<label_rect(e, lx, ly)>>
      [] t = 7 -> <<>>

\* a penalty that counts the tiers that failed before the placing one
penalty_rank(t) == t - 1

\* `score += ...` of each tier
penalty(t) ==
    CASE t = 1 -> 0 [] t = 2 -> 1 [] t = 3 -> 5 [] t = 4 -> 10
      [] t = 5 -> 20 [] t = 6 -> 50 [] t = 7 -> 100

label_entry(i, lx, ly, elbow) ==
    [person_id |-> employees[i].person_id,
     x_canvas |-> x_canvas(employees[i]),
     y_canvas |-> y_canvas(employees[i]),
     label_x |-> lx, label_y |-> ly, elbow |-> elbow]

-----------------------------------------------------------------------------
(* Inputs *)

\* the largest number of input records of one run
MaxEmployees == 2

\* Input records: floor-plan coordinates as the spreader leaves them (any two
\* points coincide or are at least min_distance apart) and the measured
\* pixel sizes of the two text lines.
Roster ==
    << [person_id |-> 1, x |-> 100, y |-> 100,
        name_width |-> 300, name_height |-> 40, room_width |-> 120, room_height |-> 30],
       [person_id |-> 2, x |-> 100, y |-> 100,
        name_width |-> 2905, name_height |-> 40, room_width |-> 120, room_height |-> 30],
       [person_id |-> 3, x |-> 100, y |-> 800,
        name_width |-> 1000, name_height |-> 600, room_width |-> 100, room_height |-> 600],
       [person_id |-> 4, x |-> 1500, y |-> 2956,
        name_width |-> 2000, name_height |-> 40, room_width |-> 120, room_height |-> 30],
       [person_id |-> 5, x |-> 800, y |-> 100,
        name_width |-> 2700, name_height |-> 40, room_width |-> 120, room_height |-> 30],
       [person_id |-> 6, x |-> 800, y |-> 2956,
        name_width |-> 2000, name_height |-> 900, room_width |-> 120, room_height |-> 900],
       [person_id |-> 7, x |-> 2200, y |-> 1500,
        name_width |-> 1000, name_height |-> 600, room_width |-> 100, room_height |-> 600],
       [person_id |-> 8, x |-> 100, y |-> 300,
        name_width |-> 800, name_height |-> 40, room_width |-> 100, room_height |-> 30],
       [person_id |-> 9, x |-> 300, y |-> 300,
        name_width |-> 800, name_height |-> 900, room_width |-> 120, room_height |-> 600],
       [person_id |-> 10, x |-> 350, y |-> 1950,
        name_width |-> 2400, name_height |-> 40, room_width |-> 100, room_height |-> 30] >>

\* A crowd: a point and five points on a ring of 150 pixels around it, any
\* two less than 300 pixels apart, so that each has density 5; the first
\* four have density 3 among themselves.
Crowd ==
    LET at(id, px, py) ==
            [person_id |-> id, x |-> px, y |-> py,
             name_width |-> 300, name_height |-> 40, room_width |-> 120, room_height |-> 30]
    IN  << at(11, 1500, 1500), at(12, 1500, 1350), at(13, 1643, 1454),
           at(14, 1588, 1621), at(15, 1412, 1621), at(16, 1357, 1454) >>

Crowds == {Crowd, SubSeq(Crowd, 1, 4)}

\* the records of Roster at the positions S, in Roster order
SubRoster(S) ==
    LET n == Cardinality(S)
        nth(p) == CHOOSE r \in S : Cardinality({q \in S : q < r}) = p - 1
    IN  [p \in 1..n |-> Roster[nth(p)]]

-----------------------------------------------------------------------------
(* try_placement as a state machine: one step per label request *)

\* a commit that inserts at the front instead of appending
insert_occupied(occ, rects) == rects \o occ

\* `occupied_rects.append(...)`
append_occupied(occ, rects) == occ \o rects

\* a placer that reports an unplaced label instead of forcing it
append_label_unless_forced(t, ld, entry) ==
    IF t = 7 THEN ld ELSE Append(ld, entry)

\* `label_data.append(...)` of tier t
append_label(t, ld, entry) == Append(ld, entry)

\* a trial that goes on with the list the trial before it left
left_over_occupied_rects(left_over) ==
    IF left_over = <<>> THEN base_occupied_rects ELSE left_over

\* `occupied_rects = list(base_occupied_rects)`: a fresh copy, whatever the
\* list of the trial before held
fresh_occupied_rects(left_over) == base_occupied_rects

\* try_placement is entered: fresh label_data, occupied_rects and score
StartTrial ==
    /\ pc \in {"idle", "returned"}
    /\ search_pc = "off"
    /\ \E s \in DOMAIN sort_names, a \in DOMAIN angle_configs :
        /\ tried(a, s)
        /\ employee_order' = sorted_employees(sort_names[s])
        /\ angle_prefs' = angle_configs[a]
    /\ label_data' = <<>>
    /\ occupied_rects' = fresh_occupied_rects(occupied_rects)
    /\ score' = 0
    /\ pos' = 0
    /\ placement_log' = <<>>
    /\ pc' = "placing"
    /\ UNCHANGED <<employees, spreader_vars, search_vars, ci_vars>>

Commit(t, i, lx, ly, elbow, tested) ==
    LET e == employees[i]
        rects == recorded_rects(t, e, lx, ly)
    IN  /\ label_data' = append_label(t, label_data, label_entry(i, lx, ly, elbow))
        /\ occupied_rects' = append_occupied(occupied_rects, rects)
        /\ score' = score + penalty(t)
        /\ placement_log' = Append(placement_log,
               [tier |-> t, emp |-> i, tested |-> tested, recorded |-> rects])
        /\ pos' = pos + 1
        /\ UNCHANGED <<employees, employee_order, angle_prefs, pc, spreader_vars,
                       search_vars, ci_vars>>

\* a cascade without its `if not placed` guards
not_placed_unguarded(t, i, occ, angles) == TRUE

\* `if not placed:` in front of tier t: no earlier tier accepted a candidate
not_placed(t, i, occ, angles) ==
    \A u \in 1..(t - 1) : first_accepted(u, i, occ, angles) = 0

\* the request at pos + 1 is placed by tier t: no earlier tier accepts a
\* candidate, and the first accepted candidate of tier t is committed
Place(t) ==
    /\ pc = "placing"
    /\ LET i == employee_order[pos + 1] IN
        /\ not_placed(t, i, occupied_rects, angle_prefs)
        /\ LET k == first_accepted(t, i, occupied_rects, angle_prefs) IN
            /\ k # 0
            /\ LET c == tier_candidates(t, i, angle_prefs)[k] IN
                Commit(t, i, c.label_x, c.label_y, c.elbow,
                       label_rect(employees[i], c.label_x, c.label_y))

PlaceDirect == pos < Len(employee_order) /\ Place(1)

PlaceExtended == pos < Len(employee_order) /\ Place(2)

PlaceElbow == pos < Len(employee_order) /\ Place(3)

PlaceExhaustive == pos < Len(employee_order) /\ Place(4)

PlaceExtremeElbow == pos < Len(employee_order) /\ Place(5)

PlaceGridScan == pos < Len(employee_order) /\ Place(6)

\* the ultimate fallback: a fixed column, stacked by len(label_data)
forced_label_y(ld) == Min2(100 + Len(ld) * 100, target_height - 200)

PlaceForced ==
    /\ pc = "placing"
    /\ pos < Len(employee_order)
    /\ LET i == employee_order[pos + 1] IN
        /\ not_placed(7, i, occupied_rects, angle_prefs)
        /\ Commit(7, i, 100, forced_label_y(label_data),
                  <<x_canvas(employees[i]), forced_label_y(label_data)>>, <<>>)

\* `return label_data, score`
Return ==
    /\ pc = "placing"
    /\ pos = Len(employee_order)
    /\ pc' = "returned"
    /\ UNCHANGED <<employees, employee_order, angle_prefs, occupied_rects,
                   label_data, score, pos, placement_log, spreader_vars,
                   search_vars, ci_vars>>

\* `float("inf")`: above every score
float_inf == 1000000

\* no command of the CI slide manager has run
CIOff ==
    /\ slides = <<>>
    /\ state_file = <<>>
    /\ ci_log = <<>>

SearchOff ==
    /\ attempt = 0
    /\ best_score = float_inf
    /\ best_label_data = <<>>
    /\ best_config = <<>>
    /\ main_label_data = <<>>
    /\ trial_log = <<>>
    /\ search_pc = "off"

SpreaderOff ==
    /\ coords_list = <<>>
    /\ start_coords = <<>>
    /\ iteration = 0
    /\ idx = 0
    /\ moved = FALSE
    /\ spread_pc = "off"
    /\ round_start = <<>>

Init ==
    /\ \/ \E S \in SUBSET DOMAIN Roster :
            /\ Cardinality(S) \in 1..MaxEmployees
            /\ employees = SubRoster(S)
       \/ employees \in Crowds
    /\ employee_order = <<>>
    /\ angle_prefs = <<>>
    /\ occupied_rects = <<>>
    /\ label_data = <<>>
    /\ score = 0
    /\ pos = 0
    /\ pc = "idle"
    /\ placement_log = <<>>
    /\ SpreaderOff
    /\ SearchOff
    /\ CIOff

Next ==
    \/ StartTrial
    \/ PlaceDirect
    \/ PlaceExtended
    \/ PlaceElbow
    \/ PlaceExhaustive
    \/ PlaceExtremeElbow
    \/ PlaceGridScan
    \/ PlaceForced
    \/ Return

Spec == Init /\ [][Next]_vars

-----------------------------------------------------------------------------
(* The configuration search of main(): the trials, the best of them, and   *)
(* the final placement                                                     *)

\* a result that replaces the best on a tie
score_improves_or_ties(new_score, old_best) == new_score <= old_best

\* the tier that places request i when the occupied list is occ
placing_tier(i, occ, angles) ==
    LET ts == {t \in 1..6 : first_accepted(t, i, occ, angles) # 0}
    IN  IF ts = {} THEN 7 ELSE MinOfSet(ts)

\* what the request i adds to occupied_rects when the occupied list is occ
placing_rects(i, occ, angles) ==
    LET t == placing_tier(i, occ, angles) IN
    IF t = 7 THEN <<>>
    ELSE LET c == tier_candidates(t, i, angles)[first_accepted(t, i, occ, angles)]
         IN  recorded_rects(t, employees[i], c.label_x, c.label_y)

\* the score that try_placement(order, angles) returns, from request k on
RECURSIVE score_from(_, _, _, _)
score_from(order, angles, k, occ) ==
    IF k > Len(order) THEN 0
    ELSE penalty(placing_tier(order[k], occ, angles))
         + score_from(order, angles, k + 1,
                      append_occupied(occ, placing_rects(order[k], occ, angles)))

\* the score of the configuration (angle list a, sort configuration s)
config_score(a, s) ==
    score_from(sorted_employees(sort_names[s]), angle_configs[a], 1,
               base_occupied_rects)

\* a comparison the wrong way round
score_worsens(new_score, old_best) == new_score > old_best

\* `if score < best_score`
score_improves(new_score, old_best) == new_score < old_best

\* a lookup that takes the first list whatever angle is asked for
find_angle_prefs_first(first_angle) == 1

\* `for ap in angle_configs: if ap[0] == best_config[1]`: the index of the
\* first angle list that starts with first_angle, 0 when there is none
find_angle_prefs(first_angle) ==
    LET hits == {a \in DOMAIN angle_configs : angle_configs[a][1] = first_angle}
    IN  IF hits = {} THEN 0 ELSE MinOfSet(hits)

\* `for name, key in sort_configs: if name == sort_name`: the index of the
\* sort configuration of that name
find_sort(sort_name) ==
    MinOfSet({k \in DOMAIN sort_names : sort_names[k] = sort_name})

\* the call try_placement(sorted_employees, angle_prefs) with the sort
\* configuration s and the angle list a
CallTrial(s, a) ==
    /\ employee_order' = sorted_employees(sort_names[s])
    /\ angle_prefs' = angle_configs[a]
    /\ label_data' = <<>>
    /\ occupied_rects' = fresh_occupied_rects(occupied_rects)
    /\ score' = 0
    /\ pos' = 0
    /\ placement_log' = <<>>
    /\ pc' = "placing"

\* the record of the call that has just returned
trial_record(sort_name) ==
    [sort_name |-> sort_name, employee_order |-> employee_order,
     angle_prefs |-> angle_prefs, label_data |-> label_data, score |-> score]

\* the body of the search loop up to the call: the next (angle list, sort
\* configuration) pair, angle-list-major, while attempt < num_attempts
NextAttempt ==
    /\ search_pc = "searching"
    /\ pc = "idle"
    /\ attempt < num_attempts
    /\ attempt' = attempt + 1
    /\ CallTrial((attempt % Len(sort_names)) + 1, (attempt \div Len(sort_names)) + 1)
    /\ UNCHANGED <<employees, spreader_vars, best_score, best_label_data,
                   best_config, main_label_data, trial_log, search_pc, ci_vars>>

\* the body of the search loop after the call: the best so far is kept
Compare ==
    /\ search_pc = "searching"
    /\ pc = "returned"
    /\ LET sort_name == sort_names[((attempt - 1) % Len(sort_names)) + 1] IN
        /\ IF score_improves(score, best_score)
           THEN /\ best_score' = score
                /\ best_label_data' = label_data
                /\ best_config' = <<sort_name, angle_prefs[1]>>
           ELSE UNCHANGED <<best_score, best_label_data, best_config>>
        /\ trial_log' = Append(trial_log, trial_record(sort_name))
    /\ pc' = "idle"
    /\ UNCHANGED <<employees, employee_order, angle_prefs, occupied_rects,
                   label_data, score, pos, placement_log, spreader_vars,
                   attempt, main_label_data, search_pc, ci_vars>>

\* after the loop: the final placement is started with the configuration
\* that best_config names, if it names one
StartFinal ==
    /\ search_pc = "searching"
    /\ pc = "idle"
    /\ attempt >= num_attempts
    /\ IF best_config # <<>> /\ find_angle_prefs(best_config[2]) # 0
       THEN /\ CallTrial(find_sort(best_config[1]), find_angle_prefs(best_config[2]))
            /\ search_pc' = "final"
            /\ UNCHANGED main_label_data
       ELSE /\ main_label_data' = best_label_data
            /\ search_pc' = "done"
            /\ UNCHANGED <<employee_order, angle_prefs, label_data,
                           occupied_rects, score, pos, placement_log, pc>>
    /\ UNCHANGED <<employees, spreader_vars, attempt, best_score,
                   best_label_data, best_config, trial_log, ci_vars>>

\* `label_data, _ = try_placement(sorted_employees, angle_prefs, verbose=True)`
FinishFinal ==
    /\ search_pc = "final"
    /\ pc = "returned"
    /\ main_label_data' = label_data
    /\ trial_log' = Append(trial_log, trial_record(best_config[1]))
    /\ search_pc' = "done"
    /\ pc' = "idle"
    /\ UNCHANGED <<employees, employee_order, angle_prefs, occupied_rects,
                   label_data, score, pos, placement_log, spreader_vars,
                   attempt, best_score, best_label_data, best_config, ci_vars>>

SearchInit ==
    /\ \/ \E S \in SUBSET DOMAIN Roster :
            /\ Cardinality(S) \in 1..MaxEmployees
            /\ employees = SubRoster(S)
       \/ employees \in Crowds
    /\ employee_order = <<>>
    /\ angle_prefs = <<>>
    /\ occupied_rects = <<>>
    /\ label_data = <<>>
    /\ score = 0
    /\ pos = 0
    /\ pc = "idle"
    /\ placement_log = <<>>
    /\ SpreaderOff
    /\ CIOff
    /\ attempt = 0
    /\ best_score = float_inf
    /\ best_label_data = <<>>
    /\ best_config = <<>>
    /\ main_label_data = <<>>
    /\ trial_log = <<>>
    /\ search_pc = "searching"

SearchNext ==
    \/ NextAttempt
    \/ PlaceDirect
    \/ PlaceExtended
    \/ PlaceElbow
    \/ PlaceExhaustive
    \/ PlaceExtremeElbow
    \/ PlaceGridScan
    \/ PlaceForced
    \/ Return
    \/ Compare
    \/ StartFinal
    \/ FinishFinal

SearchSpec == SearchInit /\ [][SearchNext]_vars

-----------------------------------------------------------------------------
(* The point spreader: spread_overlapping_employees(3056, 3056)            *)
(* Coordinates are hundredths of a pixel, forces are ten-thousandths.      *)

min_distance == 150
max_iterations == 100
map_margin == 100
boundary_width == 3056
boundary_height == 3056

\* a length in pixels, in hundredths of a pixel
Centi(px) == px * 100

min_map_x == Centi(map_margin)
max_map_x == Centi(boundary_width - map_margin)
min_map_y == Centi(map_margin)
max_map_y == Centi(boundary_height - map_margin)

\* a clamp that lets every value through
clamp_none(value, min_val, max_val) == value

clamp(value, min_val, max_val) == Max2(min_val, Min2(max_val, value))

\* the integer square root, by bisection: the largest r with r * r <= s
RECURSIVE SqrtBetween(_, _, _)
SqrtBetween(s, lo, hi) ==
    IF lo >= hi THEN lo
    ELSE LET mid == (lo + hi + 1) \div 2
         IN  IF mid * mid <= s THEN SqrtBetween(s, mid, hi)
             ELSE SqrtBetween(s, lo, mid - 1)

\* Two points at 150 pixels or more in x or in y are at a distance of
\* min_distance or more, and the squares are not computed for them.
Near(p1, p2) ==
    /\ Abs(p1.x - p2.x) < Centi(min_distance)
    /\ Abs(p1.y - p2.y) < Centi(min_distance)

\* get_distance(p1, p2), in hundredths of a pixel, for two Near points
get_distance(p1, p2) ==
    LET s == (p1.x - p2.x) * (p1.x - p2.x) + (p1.y - p2.y) * (p1.y - p2.y)
    IN  SqrtBetween(s, 0, 2 * Centi(min_distance))

\* a repulsion without the `dist > 0` guard, which pushes a coincident
\* point along +x with the full magnitude
repulsion_unguarded(p1, p2) ==
    IF ~ Near(p1, p2) THEN <<0, 0>>
    ELSE LET dist == get_distance(p1, p2) IN
         IF dist = 0 THEN <<10000, 0>>
         ELSE IF dist < Centi(min_distance)
         THEN LET dx == p1.x - p2.x
                  dy == p1.y - p2.y
                  overlap == Centi(min_distance) - dist
                  force_magnitude == (overlap * 10000) \div Centi(min_distance)
              IN  <<TruncDiv(TruncDiv(dx * 10000, dist) * force_magnitude, 10000),
                    TruncDiv(TruncDiv(dy * 10000, dist) * force_magnitude, 10000)>>
         ELSE <<0, 0>>

\* the repulsion of p2 on p1: <<force_x, force_y>> in ten-thousandths
repulsion(p1, p2) ==
    IF ~ Near(p1, p2) THEN <<0, 0>>
    ELSE LET dist == get_distance(p1, p2) IN
         IF dist < Centi(min_distance) /\ dist > 0
         THEN LET dx == p1.x - p2.x
                  dy == p1.y - p2.y
                  overlap == Centi(min_distance) - dist
                  force_magnitude == (overlap * 10000) \div Centi(min_distance)
              IN  <<TruncDiv(TruncDiv(dx * 10000, dist) * force_magnitude, 10000),
                    TruncDiv(TruncDiv(dy * 10000, dist) * force_magnitude, 10000)>>
         ELSE <<0, 0>>

\* the inner loop over j: the sum of the repulsions of the other points
net_force(cl, i) ==
    LET f[j \in 0..Len(cl)] ==
            IF j = 0 THEN <<0, 0>>
            ELSE IF j = i THEN f[j - 1]
            ELSE <<f[j - 1][1] + repulsion(cl[i], cl[j])[1],
                   f[j - 1][2] + repulsion(cl[i], cl[j])[2]>>
    IN  f[Len(cl)]

\* a movement threshold of 0.1 instead of 0.01
force_applies_coarse(force) == Abs(force[1]) > 1000 \/ Abs(force[2]) > 1000

\* `abs(force_x) > 0.01 or abs(force_y) > 0.01`
force_applies(force) == Abs(force[1]) > 100 \/ Abs(force[2]) > 100

\* force * spread_factor * min_distance with spread_factor = 0.3, in
\* hundredths of a pixel
displacement(force_c) == TruncDiv(force_c * 3 * min_distance, 10 * 100)

\* the moved point: displaced, then clamped to the map boundaries
moved_point(p, force) ==
    [x |-> clamp(p.x + displacement(force[1]), min_map_x, max_map_x),
     y |-> clamp(p.y + displacement(force[2]), min_map_y, max_map_y)]

\* forces computed from the positions the round began with
force_source_snapshot(working, snapshot) == snapshot

\* the inner loop reads coords_list itself, which the moves of this round
\* have already changed
force_source(working, snapshot) == working

\* the body of `for i, (...) in enumerate(coords_list)` for i = idx
SpreadPoint ==
    /\ spread_pc = "round"
    /\ idx <= Len(coords_list)
    /\ LET force == net_force(force_source(coords_list, round_start), idx) IN
        IF force_applies(force)
        THEN /\ coords_list' = [coords_list EXCEPT
                                   ![idx] = moved_point(coords_list[idx], force)]
             /\ moved' = TRUE
        ELSE UNCHANGED <<coords_list, moved>>
    /\ idx' = idx + 1
    /\ UNCHANGED <<start_coords, iteration, spread_pc, round_start, placer_vars,
                   search_vars, ci_vars>>

\* the end of a round: `if not moved: break`, else the next iteration
EndRound ==
    /\ spread_pc = "round"
    /\ idx > Len(coords_list)
    /\ IF ~ moved
       THEN /\ spread_pc' = "converged"
            /\ UNCHANGED <<iteration, idx, moved, round_start>>
       ELSE IF iteration + 1 < max_iterations
       THEN /\ iteration' = iteration + 1
            /\ idx' = 1
            /\ moved' = FALSE
            /\ round_start' = coords_list
            /\ UNCHANGED spread_pc
       ELSE /\ spread_pc' = "exhausted"
            /\ UNCHANGED <<iteration, idx, moved, round_start>>
    /\ UNCHANGED <<coords_list, start_coords, placer_vars, search_vars,
                   ci_vars>>

\* the largest number of points of one spreader run
MaxPoints == 3

\* the positions the points start from, in pixels
StartPoints ==
    { <<100, 100>>, <<105, 100>>, <<300, 300>>, <<50, 300>>,
      <<2950, 300>>, <<3000, 300>> }

PlacerIdle ==
    /\ employees = <<>>
    /\ employee_order = <<>>
    /\ angle_prefs = <<>>
    /\ occupied_rects = <<>>
    /\ label_data = <<>>
    /\ score = 0
    /\ pos = 0
    /\ pc = "idle"
    /\ placement_log = <<>>

\* a point on the right boundary with two neighbours at 148.5 pixels, up
\* left and down left of it, themselves 210 pixels apart
Pinned == << <<2956, 300>>, <<2851, 195>>, <<2851, 405>> >>

SpreadInit ==
    /\ \E n \in 1..MaxPoints :
        \E pts \in [1..n -> StartPoints] \cup {Pinned} :
            /\ Len(pts) = n
            /\ coords_list = [i \in 1..n |->
                              [x |-> Centi(pts[i][1]), y |-> Centi(pts[i][2])]]
    /\ start_coords = coords_list
    /\ iteration = 0
    /\ idx = 1
    /\ moved = FALSE
    /\ spread_pc = "round"
    /\ round_start = coords_list
    /\ PlacerIdle
    /\ SearchOff
    /\ CIOff

SpreadNext == SpreadPoint \/ EndRound

SpreadSpec == SpreadInit /\ [][SpreadNext]_vars

-----------------------------------------------------------------------------
(* The CI slide manager (src/ci_slide_manager.py): the commands start,     *)
(* success and failure.  A slide id is a position of `slides`; ids are     *)
(* positive, and 0 stands for None.  Each command runs to its return.      *)

SHOW_ID == 1

\* the largest number of commands of one run
MaxCommands == 3

\* the largest number of slides on the server before the first command
MaxInitialSlides == 2

known(sl, id) == id \in DOMAIN sl /\ sl[id].exists

\* `client._configure_slide(id, SHOW_ID, auto_delete=auto)`
configure_slide(sl, id, auto) ==
    IF known(sl, id) THEN [sl EXCEPT ![id].auto_delete = auto] ELSE sl

\* `client.remove_slide_from_show(id)`
remove_slide_from_show(sl, id) ==
    IF known(sl, id) THEN [sl EXCEPT ![id].show_id = 0] ELSE sl

\* a deletion that leaves the slide on the server
delete_slide_skipped(sl, id) == sl

\* `client.delete_slide(id)`
delete_slide(sl, id) ==
    IF known(sl, id)
    THEN [sl EXCEPT ![id].exists = FALSE, ![id].show_id = 0]
    ELSE sl

\* `client.upload_slide(...)`: a new slide under a fresh id, in no show
upload_slide(sl) ==
    Append(sl, [exists |-> TRUE, show_id |-> 0, auto_delete |-> FALSE])

\* an addition to the show that leaves the auto-delete flag as it was
add_slide_to_show_plain(sl, id, auto) ==
    IF known(sl, id) THEN [sl EXCEPT ![id].show_id = SHOW_ID] ELSE sl

\* `client.add_slide_to_show(id, SHOW_ID, auto_delete=auto)`
add_slide_to_show(sl, id, auto) ==
    IF known(sl, id)
    THEN [sl EXCEPT ![id].show_id = SHOW_ID, ![id].auto_delete = auto]
    ELSE sl

save_state(old_slide_id, ci_slide_id) == <<old_slide_id, ci_slide_id>>

\* <<old_slide_id, ci_slide_id>>, <<None, None>> when there is no file
load_state == IF state_file = <<>> THEN <<0, 0>> ELSE state_file

cleanup_state == <<>>

\* the slides of show SHOW_ID that have auto-delete enabled
old_slides ==
    {id \in DOMAIN slides :
        /\ slides[id].exists
        /\ slides[id].show_id = SHOW_ID
        /\ slides[id].auto_delete}

ci_record(cmd, rc, old, ci, new) ==
    [cmd |-> cmd, rc |-> rc, old |-> old, ci |-> ci, new |-> new]

\* cmd_start; upload_ok is the outcome of upload_image for the CI image
CmdStart(upload_ok) ==
    /\ Len(ci_log) < MaxCommands
    /\ \E old_slide_id \in (IF old_slides = {} THEN {0} ELSE old_slides) :
        LET disabled == IF old_slide_id # 0
                        THEN remove_slide_from_show(
                                 configure_slide(slides, old_slide_id, FALSE),
                                 old_slide_id)
                        ELSE slides
            uploaded == upload_slide(disabled)
            ci_slide_id == Len(uploaded)
        IN  IF upload_ok
            THEN /\ slides' = add_slide_to_show(uploaded, ci_slide_id, TRUE)
                 /\ state_file' = save_state(old_slide_id, ci_slide_id)
                 /\ ci_log' = Append(ci_log,
                        ci_record("start", 0, old_slide_id, ci_slide_id, 0))
            ELSE /\ slides' = disabled
                 /\ UNCHANGED state_file
                 /\ ci_log' = Append(ci_log,
                        ci_record("start", 1, old_slide_id, 0, 0))
    /\ UNCHANGED <<placer_vars, spreader_vars, search_vars>>

\* cmd_success; upload_ok is the outcome of upload_image for the new map
CmdSuccess(upload_ok) ==
    /\ Len(ci_log) < MaxCommands
    /\ LET old_slide_id == load_state[1]
           ci_slide_id == load_state[2]
           uploaded == upload_slide(slides)
           new_slide_id == Len(uploaded)
           added == add_slide_to_show(uploaded, new_slide_id, TRUE)
           without_ci == IF ci_slide_id # 0
                         THEN delete_slide(
                                  remove_slide_from_show(added, ci_slide_id),
                                  ci_slide_id)
                         ELSE added
           without_old == IF old_slide_id # 0
                          THEN delete_slide(without_ci, old_slide_id)
                          ELSE without_ci
       IN  IF upload_ok
           THEN /\ slides' = without_old
                /\ state_file' = cleanup_state
                /\ ci_log' = Append(ci_log,
                       ci_record("success", 0, old_slide_id, ci_slide_id,
                                 new_slide_id))
           ELSE /\ UNCHANGED <<slides, state_file>>
                /\ ci_log' = Append(ci_log,
                       ci_record("success", 1, old_slide_id, ci_slide_id, 0))
    /\ UNCHANGED <<placer_vars, spreader_vars, search_vars>>

\* cmd_failure
CmdFailure ==
    /\ Len(ci_log) < MaxCommands
    /\ LET old_slide_id == load_state[1]
           ci_slide_id == load_state[2]
           without_ci == IF ci_slide_id # 0
                         THEN delete_slide(
                                  remove_slide_from_show(slides, ci_slide_id),
                                  ci_slide_id)
                         ELSE slides
           restored == IF old_slide_id # 0
                       THEN add_slide_to_show(without_ci, old_slide_id, TRUE)
                       ELSE without_ci
       IN  /\ slides' = restored
           /\ state_file' = cleanup_state
           /\ ci_log' = Append(ci_log,
                  ci_record("failure", 0, old_slide_id, ci_slide_id, 0))
    /\ UNCHANGED <<placer_vars, spreader_vars, search_vars>>

\* the slides a server can hold before the first command
InitialSlides ==
    UNION {[1..n -> [exists : {TRUE}, show_id : {0, SHOW_ID},
                     auto_delete : BOOLEAN]] : n \in 0..MaxInitialSlides}

CIInit ==
    /\ slides \in InitialSlides
    /\ state_file = <<>>
    /\ ci_log = <<>>
    /\ PlacerIdle
    /\ SpreaderOff
    /\ SearchOff

CINext ==
    \/ \E upload_ok \in BOOLEAN : CmdStart(upload_ok)
    \/ \E upload_ok \in BOOLEAN : CmdSuccess(upload_ok)
    \/ CmdFailure

CISpec == CIInit /\ [][CINext]_vars

-----------------------------------------------------------------------------
(* Properties of the label placer *)

Range(f) == {f[k] : k \in DOMAIN f}

InTrial == pc \in {"placing", "returned"}

\* the boxes drawn for the label at position p of label_data: the name box
\* and the room box, padding included
DrawnBoxes(p) ==
    LET e == employees[placement_log[p].emp]
    IN  {name_box_rect(e, label_data[p].label_x, label_data[p].label_y),
         room_box_rect(e, label_data[p].label_x, label_data[p].label_y)}

LabelsOverlap(p, q) ==
    \E b1 \in DrawnBoxes(p), b2 \in DrawnBoxes(q) : rectangles_overlap(b1, b2, 0)

\* C1. Placer totality: when try_placement returns, label_data holds exactly
\* one entry for every employee of the order list, forced placements included.
C1_PlacerTotality ==
    pc = "returned" =>
        /\ Len(label_data) = Len(employee_order)
        /\ \A i \in DOMAIN employees :
               Cardinality({p \in DOMAIN label_data :
                   label_data[p].person_id = employees[i].person_id}) = 1

\* a returned trial of two requests or more in which a request found no free
\* candidate in the six searching tiers
C1_Witness ==
    /\ pc = "returned"
    /\ Len(label_data) >= 2
    /\ \E p \in DOMAIN placement_log : placement_log[p].tier = 7

\* C2 as claimed: after a placement run no two distinct labels overlap at
\* margin 0, whichever tier placed them.
C2_NoTwoLabelsOverlap ==
    pc = "returned" =>
        \A p, q \in DOMAIN label_data : p # q => ~ LabelsOverlap(p, q)

\* C2 amended: no two distinct labels that were both committed by a
\* non-forced tier overlap at margin 0.
C2_NoTwoSearchedLabelsOverlap ==
    InTrial =>
        \A p, q \in DOMAIN label_data :
            (p # q /\ placement_log[p].tier # 7 /\ placement_log[q].tier # 7)
                => ~ LabelsOverlap(p, q)

\* a returned trial with two labels placed by searching tiers, the second
\* one tested against the recorded boxes of the first
C2_Witness ==
    /\ pc = "returned"
    /\ Len(label_data) >= 2
    /\ placement_log[1].tier \in 1..3
    /\ placement_log[2].tier \in 1..6

\* C3. The anchors of all points are in occupied_rects from the start of the
\* trial on, and no label committed by a non-forced tier overlaps the anchor
\* rectangle of any point, placed already or not.
C3_AnchorsSeededAndClear ==
    InTrial =>
        /\ Len(occupied_rects) >= Len(employees)
        /\ \A i \in DOMAIN employees : occupied_rects[i] = pic_rect(employees[i])
        /\ \A p \in DOMAIN placement_log :
               placement_log[p].tier # 7 =>
                   \A i \in DOMAIN employees :
                       /\ ~ rectangles_overlap(placement_log[p].tested,
                                               pic_rect(employees[i]), 0)
                       /\ \A b \in DrawnBoxes(p) :
                              ~ rectangles_overlap(b, pic_rect(employees[i]), 0)

\* a label is committed by a searching tier while another point's label is
\* still to be placed
C3_Witness ==
    /\ pc = "placing"
    /\ pos = 1
    /\ Len(employee_order) >= 2
    /\ placement_log[1].tier # 7

\* the number of labels of the log placed by a tier of T
PlacedBy(T) == Cardinality({p \in DOMAIN placement_log : placement_log[p].tier \in T})

C8_AppendOnly ==
    [][ pc = "placing" =>
            /\ Len(occupied_rects') >= Len(occupied_rects)
            /\ \A k \in DOMAIN occupied_rects :
                   occupied_rects'[k] = occupied_rects[k] ]_vars

\* a trial that has committed a label and has another request to place
C8_Witness ==
    /\ pc = "placing"
    /\ pos >= 1
    /\ pos < Len(employee_order)
    /\ Len(occupied_rects) > Len(employees)

\* C9 as claimed: the name box and the room box of every committed label,
\* whichever tier committed it, are present in occupied_rects.
C9_BothBoxesPresent ==
    InTrial =>
        \A p \in DOMAIN label_data : DrawnBoxes(p) \subseteq Range(occupied_rects)

\* C10 as claimed: what is appended for an accepted candidate is the
\* rectangle that was collision-tested.
C10_RecordedIsTested ==
    \A p \in DOMAIN placement_log :
        placement_log[p].tier # 7 =>
            placement_log[p].recorded = <<placement_log[p].tested>>

Inside(inner, outer) ==
    /\ outer[1] <= inner[1]
    /\ outer[2] <= inner[2]
    /\ inner[3] <= outer[3]
    /\ inner[4] <= outer[4]

\* C10 amended: the exhaustive angular, extreme elbow and grid scan tiers
\* append exactly the tested rectangle; the direct, extended and elbow tiers
\* append the name box and the room box, which lie inside the tested
\* rectangle and are not equal to it.
C10_RecordedWithinTested ==
    \A p \in DOMAIN placement_log :
        LET l == placement_log[p]
            k == Len(employees) + 2 * Cardinality({q \in 1..(p - 1) : placement_log[q].tier \in 1..3})
                     + Cardinality({q \in 1..(p - 1) : placement_log[q].tier \in 4..6})
        IN  /\ l.tier \in 4..6 => occupied_rects[k + 1] = l.tested
            /\ l.tier \in 1..3 =>
                   /\ Inside(occupied_rects[k + 1], l.tested)
                   /\ Inside(occupied_rects[k + 2], l.tested)
                   /\ occupied_rects[k + 1] # l.tested
                   /\ occupied_rects[k + 2] # l.tested
                   /\ occupied_rects[k + 1] \in DrawnBoxes(p)
                   /\ occupied_rects[k + 2] \in DrawnBoxes(p)

\* a trial with an elbow-tier placement and a grid-scan placement
C10_Witness ==
    /\ InTrial
    /\ PlacedBy({3}) >= 1
    /\ PlacedBy({6}) >= 1

(***************************************************************************)
(* Properties of the point spreader                                        *)
(***************************************************************************)
SpreadDone == spread_pc \in {"converged", "exhausted"}

WithinBoundary(p) ==
    /\ min_map_x <= p.x
    /\ p.x <= max_map_x
    /\ min_map_y <= p.y
    /\ p.y <= max_map_y

\* C4 as claimed: in the final result of the spreader every point lies
\* within [margin, boundary - margin] in x and in y, whatever the initial
\* points were, those that started outside and those never moved included.
C4_FinalWithinBoundary ==
    SpreadDone => \A i \in DOMAIN coords_list : WithinBoundary(coords_list[i])

\* The distance a pair may lack at convergence, in hundredths of a pixel, for
\* n points.  A round moves no point when every net force is at most 0.01 in
\* x and in y, hence at most 0.01 * sqrt(2) in length; the overlap of a pair
\* is its repulsion times min_distance, and the repulsions across a split of
\* the points in two groups add up to at most the net forces of the smaller
\* group, which has at most n \div 2 points.  Two hundredths allow for the
\* truncations of the fixed point.
convergence_slack(n) == (((142 * min_distance) \div 100) + 2) * (n \div 2)

\* the pair is at min_distance less eps or more
Apart(p, q, eps) ==
    \/ ~ Near(p, q)
    \/ get_distance(p, q) >= Centi(min_distance) - eps

\* both points are held by clamps on opposite sides of the map
PinnedOpposite(p, q) ==
    \/ {p.x, q.x} = {min_map_x, max_map_x}
    \/ {p.y, q.y} = {min_map_y, max_map_y}

\* C5 as claimed: when the spreader stops by convergence, every pair of
\* points is at min_distance - epsilon or more, or pinned at opposite clamps.
C5_ConvergedPairsApart ==
    spread_pc = "converged" =>
        \A i, j \in DOMAIN coords_list :
            i < j =>
                \/ Apart(coords_list[i], coords_list[j],
                         convergence_slack(Len(coords_list)))
                \/ PinnedOpposite(coords_list[i], coords_list[j])

\* C5 amended: when the spreader stops by convergence, every pair of points
\* is at min_distance - epsilon or more, or the two points coincide (distance
\* 0, which exerts no force), with epsilon = 0.01 * sqrt(2) * min_distance *
\* (n \div 2) for n points.
C5_ConvergedPairsApartOrCoincident ==
    spread_pc = "converged" =>
        \A i, j \in DOMAIN coords_list :
            i < j =>
                \/ Apart(coords_list[i], coords_list[j],
                         convergence_slack(Len(coords_list)))
                \/ coords_list[i] = coords_list[j]

\* a converged run that moved a point of a pair that started too close, and
\* left the pair short of min_distance, within epsilon
C5_Witness ==
    /\ spread_pc = "converged"
    /\ \E i, j \in DOMAIN coords_list :
        /\ i # j
        /\ Near(start_coords[i], start_coords[j])
        /\ start_coords[i] # start_coords[j]
        /\ coords_list[i] # start_coords[i]
        /\ Near(coords_list[i], coords_list[j])
        /\ get_distance(coords_list[i], coords_list[j]) < Centi(min_distance)
        /\ get_distance(coords_list[i], coords_list[j]) >=
               Centi(min_distance) - convergence_slack(Len(coords_list))

\* the scenario of three points (100,100), (105,100), (300,300)
Scenario ==
    start_coords = << [x |-> Centi(100), y |-> Centi(100)],
                      [x |-> Centi(105), y |-> Centi(100)],
                      [x |-> Centi(300), y |-> Centi(300)] >>

\* C6 as claimed: after spreading the scenario the first two points are at
\* least 150 apart, displaced along x by equal amounts in opposite
\* directions with y unchanged, and the third is still at (300,300).
C6_SymmetricAndApart ==
    (Scenario /\ SpreadDone) =>
        /\ coords_list[2].x - coords_list[1].x >= Centi(min_distance)
        /\ coords_list[1].x - start_coords[1].x =
               -(coords_list[2].x - start_coords[2].x)
        /\ coords_list[1].y = start_coords[1].y
        /\ coords_list[2].y = start_coords[2].y
        /\ coords_list[3] = start_coords[3]

\* C6 amended: the spreader converges on the scenario; the first point, on
\* the boundary margin, is still at (100,100); the second has moved along +x
\* only, to less than 150 but at least 150 - epsilon from the first; the
\* third is still at (300,300).
C6_SecondPointPushedAlone ==
    (Scenario /\ SpreadDone) =>
        /\ spread_pc = "converged"
        /\ coords_list[1] = start_coords[1]
        /\ coords_list[2].y = start_coords[2].y
        /\ coords_list[2].x > start_coords[2].x
        /\ coords_list[2].x - coords_list[1].x < Centi(min_distance)
        /\ coords_list[2].x - coords_list[1].x >=
               Centi(min_distance) - convergence_slack(3)
        /\ coords_list[3] = start_coords[3]

\* the scenario, spread to convergence in more than one round
C6_Witness ==
    /\ Scenario
    /\ spread_pc = "converged"
    /\ iteration >= 1
    /\ coords_list[2] # start_coords[2]

(***************************************************************************)
(* Properties of the configuration search                                  *)
(***************************************************************************)

\* two calls of the log were given the same arguments
SameCall(i, j) ==
    /\ trial_log[i].employee_order = trial_log[j].employee_order
    /\ trial_log[i].angle_prefs = trial_log[j].angle_prefs

\* C11. Determinism: any two calls of try_placement of one run that were
\* given the same employee order and the same angle list returned the same
\* label_data and the same score, whatever calls were made between them.
C11_SameCallSameResult ==
    \A i, j \in DOMAIN trial_log :
        SameCall(i, j) =>
            /\ trial_log[i].label_data = trial_log[j].label_data
            /\ trial_log[i].score = trial_log[j].score

\* two calls with the same arguments, a call with another order and a call
\* with another angle list between them, and labels placed by fallback tiers
C11_Witness ==
    \E i, j, k, l \in DOMAIN trial_log :
        /\ i < k /\ k < j
        /\ i < l /\ l < j
        /\ SameCall(i, j)
        /\ trial_log[k].employee_order # trial_log[i].employee_order
        /\ trial_log[l].angle_prefs # trial_log[i].angle_prefs
        /\ trial_log[j].score > 0

\* the trials of the search, in enumeration order
Trials == 1..num_attempts

\* the configuration of a call of the log, as best_config names it
config_of(k) == <<trial_log[k].sort_name, trial_log[k].angle_prefs[1]>>

\* trial k is the only trial of score 0
OnlyZero(k) ==
    /\ trial_log[k].score = 0
    /\ \A j \in Trials \ {k} : trial_log[j].score > 0

\* the configuration (a, s) is the only one of score 0 among all those of
\* angle_configs x sort_configs
OnlyZeroConfig(a, s) ==
    /\ config_score(a, s) = 0
    /\ \A b \in DOMAIN angle_configs, r \in DOMAIN sort_names :
           <<b, r>> # <<a, s>> => config_score(b, r) > 0

\* C12 as claimed: when one of the (sort order, angle list) configurations
\* yields score 0 and all the others a positive score, the search selects
\* that configuration.
C12_ZeroScoreSelected ==
    search_pc = "done" =>
        \A a \in DOMAIN angle_configs, s \in DOMAIN sort_names :
            OnlyZeroConfig(a, s) =>
                /\ best_config = <<sort_names[s], angle_configs[a][1]>>
                /\ best_score = 0

\* C12 amended: when one of the configurations that the search tries (the
\* first num_attempts = 15 in angle-list-major order) yields score 0 and all
\* the other tried ones a positive score, the search selects that
\* configuration and its result is the one committed.
C12_TriedZeroScoreSelected ==
    search_pc = "done" =>
        \A k \in Trials :
            OnlyZero(k) =>
                /\ best_config = config_of(k)
                /\ best_score = 0
                /\ best_label_data = trial_log[k].label_data
                /\ main_label_data = trial_log[k].label_data

\* a finished search in which one trial, not the first, scored 0 and all the
\* others scored more
C12_Witness ==
    /\ search_pc = "done"
    /\ \E k \in Trials : k > 1 /\ OnlyZero(k)

\* the trials logged so far
Logged == 1..Min2(Len(trial_log), num_attempts)

\* the least score among the trials logged so far
min_score == MinOfSet({trial_log[k].score : k \in Logged})

\* the first trial, in enumeration order, that reached the least score
first_min == MinOfSet({k \in Logged : trial_log[k].score = min_score})

\* C19. Tie-break: at every point of the search, and when it is done, the
\* best configuration is that of the first trial in enumeration order whose
\* score is the least of the trials made so far; a later trial of equal
\* score has not replaced it.
C19_FirstMinimumSelected ==
    Logged # {} =>
        /\ best_config = config_of(first_min)
        /\ best_score = min_score
        /\ best_label_data = trial_log[first_min].label_data

\* a finished search in which several trials share the least score, the
\* first of them is not the first trial, and their configurations differ
C19_Witness ==
    /\ search_pc = "done"
    /\ first_min > 1
    /\ \E j \in Trials :
           /\ j > first_min
           /\ trial_log[j].score = min_score
           /\ config_of(j) # config_of(first_min)
           /\ trial_log[j].label_data # trial_log[first_min].label_data

\* the trials of the search whose configuration best_config names
best_trials == {k \in Trials : config_of(k) = best_config}

\* the call of the final placement, the last of the log
final_call == trial_log[Len(trial_log)]

\* C20. Re-run fidelity: when main() is done, the final placement was a call
\* of try_placement with the employee order and the angle list of the best
\* trial, and the label_data that is drawn equals best_label_data, the
\* label_data that trial returned.
C20_FinalRunIsBestTrial ==
    search_pc = "done" =>
        /\ Len(trial_log) = num_attempts + 1
        /\ best_trials # {}
        /\ \A k \in best_trials :
               /\ final_call.employee_order = trial_log[k].employee_order
               /\ final_call.angle_prefs = trial_log[k].angle_prefs
               /\ best_label_data = trial_log[k].label_data
        /\ main_label_data = best_label_data

\* a finished run of two labels whose best trial used neither the first
\* angle list nor the first sort order, nor the employee order of that sort
C20_Witness ==
    /\ search_pc = "done"
    /\ Len(trial_log) = num_attempts + 1
    /\ final_call.angle_prefs # angle_configs[1]
    /\ final_call.sort_name # sort_names[1]
    /\ final_call.employee_order # sorted_employees(sort_names[1])
    /\ Len(main_label_data) >= 2

\* the cap of the attempt budget
attempt_cap == 15

\* the number of trials the budget allows
budget == Min2(Len(angle_configs) * Len(sort_names), attempt_cap)

\* the k-th pair of angle_configs x sort_configs, angle-list-major
kth_angle_prefs(k) == angle_configs[((k - 1) \div Len(sort_names)) + 1]

kth_sort_name(k) == sort_names[((k - 1) % Len(sort_names)) + 1]

\* the search made exactly the first `budget` trials of the enumeration, in
\* that order, and after them only the final placement
BudgetRun ==
    /\ attempt = budget
    /\ Len(trial_log) = budget + 1
    /\ \A k \in 1..budget :
           /\ trial_log[k].angle_prefs = kth_angle_prefs(k)
           /\ trial_log[k].sort_name = kth_sort_name(k)
           /\ trial_log[k].employee_order = sorted_employees(kth_sort_name(k))

\* the steps of one call of try_placement: the call, one step per label
\* request, the return, and the use of the result
call_steps == Len(employees) + 3

\* the calls of try_placement still to be started under the budget: the
\* trials that are left, and the final placement
calls_left ==
    IF search_pc = "searching" THEN (budget - attempt) + 1 ELSE 0

\* the steps the call in progress still has to make
call_left ==
    CASE pc = "placing" -> (Len(employee_order) - pos) + 2
      [] pc = "returned" -> 1
      [] OTHER -> 0

\* the number of steps main() has left if it makes exactly `budget` trials
steps_left == calls_left * call_steps + call_left

\* C21. Attempt budget: the configuration search runs exactly
\* min(|angle lists| x |sort orders|, 15) trials, the first ones of the
\* angle-list-major enumeration in that order, and then terminates: every
\* step of main() uses up one of the steps that this budget leaves, none
\* being left exactly when main() is done, and when it is done the calls
\* made are those trials, in that order, and the final placement.
C21_BudgetThenDone ==
    [][/\ steps_left' = steps_left - 1
       /\ steps_left' >= 0
       /\ (steps_left' = 0) <=> (search_pc' = "done")
       /\ search_pc' = "done" => BudgetRun']_vars

\* a finished search whose last trial was the fifteenth pair, the third
\* angle list with the sort top_to_bottom, the fourth and fifth angle lists
\* never having been used
C21_Witness ==
    /\ search_pc = "done"
    /\ Len(trial_log) = attempt_cap + 1
    /\ trial_log[attempt_cap].angle_prefs = angle_configs[3]
    /\ trial_log[attempt_cap].sort_name = "top_to_bottom"
    /\ \A k \in DOMAIN trial_log :
           trial_log[k].angle_prefs \notin {angle_configs[4], angle_configs[5]}

(***************************************************************************)
(* Properties of single requests                                           *)
(***************************************************************************)

\* the smallest radius of the density bucket below 3
smallest_radius == 180

\* a single point with ample free space: the only request of the trial, and
\* at the smallest radius the label fits the drawable area at every angle
SinglePointAmpleSpace ==
    /\ Len(employees) = 1
    /\ \A a \in DOMAIN angle_prefs :
           in_bounds(employees[1],
                     polar_candidate(employees[1], smallest_radius, angle_prefs[a]).label_x,
                     polar_candidate(employees[1], smallest_radius, angle_prefs[a]).label_y)

\* C13 as claimed: a single point with ample free space is placed by the
\* Direct tier at radius 180 and at the first angle of the preference list,
\* with no elbow and a trial score of 0.
C13_SinglePointFirstAngle ==
    (pc = "returned" /\ SinglePointAmpleSpace) =>
        /\ placement_log[1].tier = 1
        /\ score = 0
        /\ label_data[1].elbow = <<>>
        /\ label_data[1].label_x =
               polar_candidate(employees[1], smallest_radius, angle_prefs[1]).label_x
        /\ label_data[1].label_y =
               polar_candidate(employees[1], smallest_radius, angle_prefs[1]).label_y

\* the label of the single point at radius 180 and the angle angle_deg
\* stays clear, by the margin 20, of the point's own picture rectangle
ClearOfOwnPicture(angle_deg) ==
    LET c == polar_candidate(employees[1], smallest_radius, angle_deg)
    IN  ~ rectangles_overlap(label_rect(employees[1], c.label_x, c.label_y),
                             pic_rect(employees[1]), 20)

\* C13 amended: a single point with ample free space is placed by the Direct
\* tier at radius 180, with no elbow and a trial score of 0, at the first
\* angle of the preference list at which the label rectangle stays clear of
\* the point's own picture rectangle.
C13_SinglePointFirstClearAngle ==
    (pc = "returned" /\ SinglePointAmpleSpace) =>
        LET clear == {a \in DOMAIN angle_prefs : ClearOfOwnPicture(angle_prefs[a])}
            c == polar_candidate(employees[1], smallest_radius,
                                 angle_prefs[MinOfSet(clear)])
        IN  /\ clear # {}
            /\ placement_log[1].tier = 1
            /\ score = 0
            /\ label_data[1].elbow = <<>>
            /\ label_data[1].label_x = c.label_x
            /\ label_data[1].label_y = c.label_y

\* a returned trial of a single point with ample space whose first angle is
\* not clear of the point's own picture
C13_Witness ==
    /\ pc = "returned"
    /\ SinglePointAmpleSpace
    /\ Len(label_data) = 1
    /\ ~ ClearOfOwnPicture(angle_prefs[1])

\* tier u has a candidate that it accepts for request i in the current state
TierAccepts(u, i) == first_accepted(u, i, occupied_rects, angle_prefs) # 0

\* C14. Tier order: the tier that places a request is the first, in the
\* order Direct, Extended, Elbow, Exhaustive angular, Extreme elbow, Grid
\* scan, Forced, that accepts a candidate: every earlier tier found none, and
\* the request is placed once, by that tier alone.
C14_TierOrder ==
    [][ (pc = "placing" /\ pos < Len(employee_order) /\ pos' # pos) =>
            LET i == employee_order[pos + 1]
                t == placement_log'[pos + 1].tier
            IN  /\ pos' = pos + 1
                /\ Len(placement_log') = pos + 1
                /\ Len(label_data') = Len(label_data) + 1
                /\ placement_log'[pos + 1].emp = i
                /\ t \in 1..7
                /\ \A u \in 1..(t - 1) : ~ TierAccepts(u, i)
                /\ t < 7 => TierAccepts(t, i) ]_vars

\* a trial with a request placed at once by the Direct tier and a request
\* that went through four tiers before the Extreme elbow tier placed it
C14_Witness ==
    /\ InTrial
    /\ PlacedBy({1}) >= 1
    /\ PlacedBy({5}) >= 1

\* the rectangle lies inside the drawable region
InDrawable(rect) ==
    /\ rect[1] >= 50
    /\ rect[2] >= 50
    /\ rect[3] <= map_area_width - 50
    /\ rect[4] <= target_height - 50

\* C15 as claimed: every label committed by one of the six non-forced tiers
\* has its padded label rectangle inside the drawable region
\* [50, map_area_width - 50] x [50, target_height - 50].
C15_SearchedLabelsInDrawable ==
    \A p \in DOMAIN placement_log :
        placement_log[p].tier \in 1..6 => InDrawable(placement_log[p].tested)

\* the margin of each tier, by the density of the request for the Direct tier
claimed_margin(t, d) ==
    CASE t = 1 -> (IF d >= 5 THEN 40 ELSE IF d >= 3 THEN 30 ELSE 20)
      [] t = 2 -> 20
      [] t = 3 -> 15
      [] t = 4 -> 10
      [] t = 5 -> 5
      [] t = 6 -> 5

\* C16. Collision rule: when a non-forced tier accepts a candidate, the
\* label rectangle of the candidate does not overlap, within the margin of
\* the tier (40, 30 or 20 by density for Direct, then 20, 15, 10, 5, 5), any
\* rectangle that occupied_rects holds at that moment.
C16_AcceptedClearOfOccupied ==
    [][ (pc = "placing" /\ pos < Len(employee_order) /\ pos' = pos + 1
         /\ placement_log'[pos + 1].tier \in 1..6) =>
            LET i == employee_order[pos + 1]
                l == placement_log'[pos + 1]
            IN  \A k \in DOMAIN occupied_rects :
                    ~ rectangles_overlap(l.tested, occupied_rects[k],
                                         claimed_margin(l.tier, density(i))) ]_vars

\* a trial in which the Direct tier placed a request of density 3 or 4
\* against the labels placed before it
C16_Witness ==
    /\ InTrial
    /\ Len(placement_log) >= 2
    /\ placement_log[Len(placement_log)].tier = 1
    /\ density(placement_log[Len(placement_log)].emp) \in {3, 4}

-----------------------------------------------------------------------------
(* Properties of the CI slide manager                                      *)

\* the last two commands were `first` and then `second`
LastTwo(first, second) ==
    /\ Len(ci_log) >= 2
    /\ ci_log[Len(ci_log) - 1].cmd = first
    /\ ci_log[Len(ci_log)].cmd = second

\* the record of the command before the last one
start_record == ci_log[Len(ci_log) - 1]

\* the record of the last command
last_record == ci_log[Len(ci_log)]

InShowWithAutoDelete(id) ==
    /\ known(slides, id)
    /\ slides[id].show_id = SHOW_ID
    /\ slides[id].auto_delete

Deleted(id) ==
    /\ id \in DOMAIN slides
    /\ ~slides[id].exists
    /\ slides[id].show_id # SHOW_ID

\* C17: after `start` followed by `failure`, the old slide that start
\* recorded is back in show 1 with auto-delete enabled, the CI progress
\* slide is out of the show and deleted, and the state file does not exist.
C17_FailureRestoresOldSlide ==
    LastTwo("start", "failure") =>
        /\ state_file = <<>>
        /\ start_record.rc = 0 =>
            /\ start_record.old # 0 => InShowWithAutoDelete(start_record.old)
            /\ Deleted(start_record.ci)

\* a failed build whose start found an old slide and recorded it
C17_Witness ==
    /\ LastTwo("start", "failure")
    /\ start_record.rc = 0
    /\ start_record.old # 0
    /\ last_record.old = start_record.old
    /\ last_record.ci = start_record.ci

\* C18: after `start` followed by `success` whose upload succeeded, show 1
\* holds the new map slide with auto-delete enabled, the CI progress slide
\* and the old slide that start recorded are both deleted, and the state
\* file does not exist.
C18_SuccessReplacesOldSlide ==
    (LastTwo("start", "success") /\ last_record.rc = 0) =>
        /\ InShowWithAutoDelete(last_record.new)
        /\ state_file = <<>>
        /\ start_record.rc = 0 =>
            /\ Deleted(start_record.ci)
            /\ start_record.old # 0 => Deleted(start_record.old)

\* a successful build whose start found an old slide and recorded it
C18_Witness ==
    /\ LastTwo("start", "success")
    /\ start_record.rc = 0
    /\ start_record.old # 0
    /\ last_record.rc = 0
    /\ last_record.new # 0
    /\ last_record.old = start_record.old

\* the run began with `start`, which found an auto-delete slide in show 1
StartedWithOldSlide ==
    /\ Len(ci_log) >= 1
    /\ ci_log[1].cmd = "start"
    /\ ci_log[1].old # 0

\* the old slides, CI progress slides and new map slides of the commands run
tracked_slides ==
    UNION {{ci_log[k].old, ci_log[k].ci, ci_log[k].new} : k \in DOMAIN ci_log}
        \ {0}

\* C30 as claimed: if show 1 held an auto-delete slide before `start`, then
\* after every command of any sequence of start, success and failure,
\* failed uploads included, show 1 holds at least one of the old slide, the
\* CI progress slide or the new map slide.
C30_ShowNeverEmpty ==
    StartedWithOldSlide =>
        \E id \in tracked_slides :
            known(slides, id) /\ slides[id].show_id = SHOW_ID

-----------------------------------------------------------------------------
(* Properties of the trial score                                           *)

\* the penalties of the tiers Direct, Extended, Elbow-routed, Exhaustive,
\* Extreme-elbow, Grid-scan and Forced
tier_penalties == <<0, 1, 5, 10, 20, 50, 100>>

RECURSIVE penalty_sum(_, _)
\* the sum of the penalties of the tiers of the first n placements
penalty_sum(log, n) ==
    IF n = 0 THEN 0
    ELSE penalty_sum(log, n - 1) + tier_penalties[log[n].tier]

\* C22. Trial score: during a call of try_placement and at its return, the
\* score is the sum, over the requests handled, of the penalty of the tier
\* that placed the request, the penalties being 0, 1, 5, 10, 20, 50 and 100
\* and growing strictly with the tier.
C22_ScoreIsPenaltySum ==
    /\ InTrial => score = penalty_sum(placement_log, Len(placement_log))
    /\ \A t \in 1..6 : penalty(t) < penalty(t + 1)

\* a returned trial of two labels placed by two different fallback tiers
C22_Witness ==
    /\ pc = "returned"
    /\ Len(placement_log) = 2
    /\ placement_log[1].tier > 1
    /\ placement_log[2].tier > 1
    /\ placement_log[1].tier # placement_log[2].tier
    /\ score = tier_penalties[placement_log[1].tier]
               + tier_penalties[placement_log[2].tier]

-----------------------------------------------------------------------------
(* Properties of the enumeration order of the radial tiers                 *)

\* the radii of the Direct tier (t = 1) and of the Extended tier (t = 2)
radii(t, i) ==
    IF t = 1 THEN distances_to_try(density(i)) ELSE extended_distances

\* the candidate of request i at the di-th radius and the ai-th angle passes
\* the bounds test and the collision test of tier t against occ
Passes(t, i, di, ai, occ) ==
    accepted(t, i, polar_candidate(employees[i], radii(t, i)[di],
                                   angle_prefs[ai]), occ)

\* the label is the candidate at the di-th radius and the ai-th angle
IsCandidate(t, i, di, ai, label) ==
    LET c == polar_candidate(employees[i], radii(t, i)[di], angle_prefs[ai])
    IN  label.label_x = c.label_x /\ label.label_y = c.label_y

\* (dj, aj) comes before (di, ai) in the radius-major order
RadiusMajorBefore(dj, aj, di, ai) == dj < di \/ (dj = di /\ aj < ai)

\* the step commits a label by the Direct or the Extended tier
RadialCommit ==
    /\ pc = "placing"
    /\ Len(placement_log') = Len(placement_log) + 1
    /\ placement_log'[Len(placement_log')].tier \in {1, 2}

\* C23. The Direct and the Extended tier accept the first candidate, in
\* radius-major order (every angle of the preference list at the first
\* radius, then every angle at the second, and so on), that passes the
\* bounds test and the collision test: the committed label is such a
\* candidate and no candidate before it in that order passes both tests.
C23_RadiusMajorFirstFit ==
    [][RadialCommit =>
        LET t == placement_log'[Len(placement_log')].tier
            i == placement_log'[Len(placement_log')].emp
            label == label_data'[Len(label_data')]
        IN  \E di \in DOMAIN radii(t, i), ai \in DOMAIN angle_prefs :
                /\ IsCandidate(t, i, di, ai, label)
                /\ Passes(t, i, di, ai, occupied_rects)
                /\ \A dj \in DOMAIN radii(t, i), aj \in DOMAIN angle_prefs :
                       RadiusMajorBefore(dj, aj, di, ai) =>
                           ~ Passes(t, i, dj, aj, occupied_rects)]_vars

\* a label committed by the Direct or the Extended tier at the second radius
\* or a later one and at the second angle or a later one: the whole first
\* radius and the first angle of this radius were tried and rejected
C23_Witness ==
    /\ InTrial
    /\ \E p \in DOMAIN placement_log :
           /\ placement_log[p].tier \in {1, 2}
           /\ \E di \in DOMAIN radii(placement_log[p].tier, placement_log[p].emp),
                 ai \in DOMAIN angle_prefs :
                  /\ di >= 2
                  /\ ai >= 2
                  /\ IsCandidate(placement_log[p].tier, placement_log[p].emp,
                                 di, ai, label_data[p])

-----------------------------------------------------------------------------
(* Properties of the spreader's rounds                                     *)

\* the points given to the spreader, two or more, are all at one position
AllCoincident ==
    /\ Len(start_coords) >= 2
    /\ \A i, j \in DOMAIN start_coords : start_coords[i] = start_coords[j]

\* C24. Coincident points: two points of the working list at exactly the
\* same position contribute zero force to each other; when all the points
\* given are coincident no point is ever moved, and the spreader stops by
\* convergence at the end of its first round with the points as given.
C24_CoincidentNoForce ==
    /\ \A i, j \in DOMAIN coords_list :
           (i # j /\ coords_list[i] = coords_list[j]) =>
               repulsion(coords_list[i], coords_list[j]) = <<0, 0>>
    /\ AllCoincident =>
           /\ coords_list = start_coords
           /\ ~ moved
           /\ iteration = 0
           /\ spread_pc # "exhausted"

\* three coincident points, returned by convergence after the first round
C24_Witness ==
    /\ AllCoincident
    /\ Len(start_coords) = 3
    /\ spread_pc = "converged"
    /\ iteration = 0
    /\ coords_list = start_coords

\* the step handles the point at position idx of the round
PointStep ==
    /\ spread_pc = "round"
    /\ idx <= Len(coords_list)
    /\ idx' = idx + 1

\* the positions the force on point i is computed from, according to C25:
\* those after this round's moves for the points before i, those the round
\* began with for i and the points after it
interleaved(after, i) ==
    [j \in DOMAIN round_start |-> IF j < i THEN after[j] ELSE round_start[j]]

\* the point i as the round leaves it, given the positions it sees
handled(seen, i) ==
    IF force_applies(net_force(seen, i))
    THEN moved_point(seen[i], net_force(seen, i))
    ELSE seen[i]

\* C25. Spreader interleaving: within a round the points are handled in
\* input order and each move is written to the list at once: the step for
\* point i leaves every other point as it is, and moves point i by the force
\* computed from this round's moved positions of the points before i and
\* from the round's starting positions of the points after i.
C25_InPlaceInterleaving ==
    [][PointStep =>
        /\ \A j \in DOMAIN coords_list :
               j # idx => coords_list'[j] = coords_list[j]
        /\ \A j \in DOMAIN coords_list :
               j > idx => coords_list[j] = round_start[j]
        /\ coords_list'[idx] = handled(interleaved(coords_list', idx), idx)]_vars

\* a round in which a point before the last handled one has moved, and the
\* last handled one has been moved to another place than the positions at
\* the start of the round would have sent it to
C25_Witness ==
    /\ spread_pc = "round"
    /\ idx >= 3
    /\ \E j \in 1..(idx - 2) : coords_list[j] # round_start[j]
    /\ coords_list[idx - 1] # round_start[idx - 1]
    /\ coords_list[idx - 1] # handled(round_start, idx - 1)

\* the step ends a round
RoundEnd ==
    /\ spread_pc = "round"
    /\ idx > Len(coords_list)
    /\ idx' # idx + 1

\* no point changed position in the round that ends
StillRound == coords_list = round_start

\* C26. Spreader termination: the spreader makes at most max_iterations
\* rounds and then returns, and it stops at the end of the first round in
\* which no point changed position: a round that changed no position is
\* followed by no other round, and the spreader stops by convergence only
\* after such a round.
C26_StopsAtFirstStillRound ==
    [][/\ iteration' < max_iterations
       /\ RoundEnd =>
           /\ StillRound => (spread_pc' # "round" /\ iteration' = iteration)
           /\ spread_pc' = "converged" => StillRound
           /\ spread_pc' = "exhausted" => iteration = max_iterations - 1]_vars

-----------------------------------------------------------------------------
(* Properties of the elbow tiers                                           *)

\* the point lies inside the drawable region
PointInDrawable(pt) ==
    /\ Len(pt) = 2
    /\ 50 <= pt[1]
    /\ pt[1] <= map_area_width - 50
    /\ 50 <= pt[2]
    /\ pt[2] <= target_height - 50

\* C27. Elbow bounds: every label committed by the Elbow-routed tier or the
\* Extreme-elbow tier has its elbow point inside the drawable region
\* [50, map_area_width - 50] x [50, target_height - 50], and its padded label
\* rectangle inside the same region.
C27_ElbowAndLabelInDrawable ==
    InTrial =>
        \A p \in DOMAIN placement_log :
            placement_log[p].tier \in {3, 5} =>
                /\ PointInDrawable(label_data[p].elbow)
                /\ InDrawable(label_rect(employees[placement_log[p].emp],
                                         label_data[p].label_x,
                                         label_data[p].label_y))

\* the route of the elbow tier t that gave the label at position p
RouteOf(t, p) ==
    LET cands == tier_candidates(t, placement_log[p].emp, angle_prefs)
    IN  MinOfSet({c \in DOMAIN cands :
                     /\ cands[c].label_x = label_data[p].label_x
                     /\ cands[c].label_y = label_data[p].label_y
                     /\ cands[c].elbow = label_data[p].elbow})

\* a label committed by an elbow tier on a route that is not the first of
\* its list, a route before it having been rejected for its bounds alone
C27_Witness ==
    /\ InTrial
    /\ \E p \in DOMAIN placement_log :
           /\ placement_log[p].tier \in {3, 5}
           /\ p = 1
           /\ \E c \in 1..(RouteOf(placement_log[p].tier, p) - 1) :
                  LET cand == tier_candidates(placement_log[p].tier,
                                              placement_log[p].emp, angle_prefs)[c]
                      e == employees[placement_log[p].emp]
                  IN  /\ ~ tier_bounds(placement_log[p].tier, e, cand)
                      /\ ~ collision(label_rect(e, cand.label_x, cand.label_y),
                                     base_occupied_rects,
                                     tier_margin(placement_log[p].tier,
                                                 placement_log[p].emp))

-----------------------------------------------------------------------------
(* Properties of the isolation of trials                                   *)

\* the step enters try_placement
CallStep == pc # "placing" /\ pc' = "placing"

\* the step logs the result of a call
LogStep == Len(trial_log') = Len(trial_log) + 1

\* the score that the arguments of the last logged call give when the
\* placement is computed from the anchors alone, with no call before it
score_in_isolation(log) ==
    score_from(log[Len(log)].employee_order, log[Len(log)].angle_prefs, 1,
               [i \in DOMAIN employees |-> pic_rect(employees[i])])

\* C28. Trial isolation: every call of try_placement starts from an occupied
\* list that holds the anchor rectangles and nothing else, with empty
\* label_data and score 0; no step changes the employees, their coordinates
\* or the anchors; and the score a call returns is the score its arguments
\* give from the anchors alone, whichever trials ran before it.
C28_TrialsIsolated ==
    [][/\ employees' = employees
       /\ CallStep =>
           /\ occupied_rects' = [i \in DOMAIN employees |-> pic_rect(employees[i])]
           /\ label_data' = <<>>
           /\ score' = 0
       /\ LogStep => score = score_in_isolation(trial_log')]_vars

\* a call that has just been entered after a call that committed a label by
\* a searching tier, and so left more than the anchors in its occupied list
C28_Witness ==
    /\ pc = "placing"
    /\ pos = 0
    /\ Len(trial_log) >= 2
    /\ Len(occupied_rects) = Len(employees)
    /\ \E k \in DOMAIN trial_log :
           /\ trial_log[k].label_data # <<>>
           /\ trial_log[k].score < 100 * Len(trial_log[k].label_data)
           /\ trial_log[k].score > 0

-----------------------------------------------------------------------------
(* Properties of what the box tiers record                                 *)

\* the step commits a label by the Direct, Extended or Elbow-routed tier
BoxCommit ==
    /\ pc = "placing"
    /\ Len(placement_log') = Len(placement_log) + 1
    /\ placement_log'[Len(placement_log')].tier \in {1, 2, 3}

\* the rectangles the step appends to occupied_rects
appended ==
    SubSeq(occupied_rects', Len(occupied_rects) + 1, Len(occupied_rects'))

\* C29. Recorded boxes are covered by the tested box: when the Direct, the
\* Extended or the Elbow-routed tier accepts a candidate, it appends two
\* rectangles to occupied_rects, and each of them lies inside the padded
\* label rectangle of the candidate, the rectangle that was tested and found
\* free of collisions with the tier's margin.
C29_RecordedCoveredByTested ==
    [][BoxCommit =>
        LET t == placement_log'[Len(placement_log')].tier
            i == placement_log'[Len(placement_log')].emp
            label == label_data'[Len(label_data')]
            tested == <<label.label_x - padding_box,
                        label.label_y - padding_box,
                        label.label_x + label_width(employees[i]) + padding_box,
                        label.label_y + label_height(employees[i]) + padding_box>>
        IN  /\ Len(appended) = 2
            /\ \A k \in DOMAIN appended : Inside(appended[k], tested)
            /\ ~ collision(tested, occupied_rects, tier_margin(t, i))]_vars

\* a trial in which the Direct tier and the Extended tier each committed a
\* label, four recorded rectangles following the anchors
C29_Witness ==
    /\ InTrial
    /\ Len(placement_log) = 2
    /\ {placement_log[1].tier, placement_log[2].tier} = {1, 2}
    /\ Len(occupied_rects) = Len(employees) + 4

=============================================================================
